---- MODULE Spec2Model ----
(***************************************************************************)
(* Model of the TechCrunch listing scraper (src/scraper.py, src/utils.py). *)
(* Text is modelled as sequences of one-character strings so that prefix   *)
(* tests, slicing, whitespace normalisation and timestamp parsing are      *)
(* computed the way the Python code computes them.                         *)
(***************************************************************************)
EXTENDS Integers, Sequences, FiniteSets, TLC

VARIABLES
    pc,            \* position of main() / scrape_all_pages
    max_pages,     \* TechCrunchScraper.max_pages
    delay_range,   \* TechCrunchScraper.delay_range, <<min, max>>
    use_scope,     \* TRUE: main()'s "async with"; FALSE: scrape_all_pages called on a bare scraper
    session,       \* TechCrunchScraper.session: "none", "open", "closed"
    errors,        \* TechCrunchScraper.errors
    all_articles,  \* scrape_all_pages' all_articles
    page_num,      \* loop variable of scrape_all_pages
    in_flight,     \* a session.get is awaiting its response
    requests,      \* history: the urls passed to fetch_page, in call order
    yields,        \* history: number of articles scrape_page returned, per call
    origin,        \* history: <<page, card index>> of each element of all_articles
    slept,         \* history: pages after which random_delay ran
    delay,         \* duration of the sleep in progress, -1 when not sleeping
    failed,        \* an exception left the "async with" body (main()'s except branch)
    responses,     \* history: the outcome of each fetch_page call, in call order
    card,          \* the card handed to parse_article_from_card (card specification)
    result         \* what parse_article_from_card returned: <<>> (None) or <<article>>

vars == <<pc, max_pages, delay_range, use_scope, session, errors,
          all_articles, page_num, in_flight, requests, yields, origin, slept,
          delay, failed, responses, card, result>>

----------------------------------------------------------------------------
(* Bounds of the model.                                                    *)
MaxPages == 5
MaxDelay == 1

----------------------------------------------------------------------------
(* Text helpers.                                                           *)
DigitChars == <<"0","1","2","3","4","5","6","7","8","9">>
Digit == {DigitChars[i] : i \in 1..10}
DigitVal == [c \in Digit |-> (CHOOSE i \in 1..10 : DigitChars[i] = c) - 1]
Whitespace == {" ", "\t", "\n"}

Min(a, b) == IF a <= b THEN a ELSE b

startswith(s, prefix) ==
    /\ Len(s) >= Len(prefix)
    /\ SubSeq(s, 1, Len(prefix)) = prefix

Slice(s, n) == SubSeq(s, 1, Min(n, Len(s)))

RECURSIVE IntToStr(_)
IntToStr(n) ==
    IF n < 10 THEN <<DigitChars[n + 1]>>
    ELSE IntToStr(n \div 10) \o <<DigitChars[(n % 10) + 1]>>

RECURSIVE ToInt(_)
ToInt(s) ==
    IF s = <<>> THEN 0
    ELSE 10 * ToInt(SubSeq(s, 1, Len(s) - 1)) + DigitVal[s[Len(s)]]

IsDigits(s) == \A i \in 1..Len(s) : s[i] \in Digit

RECURSIVE Pad(_, _)
Pad(s, width) == IF Len(s) >= width THEN s ELSE Pad(<<"0">> \o s, width)

RECURSIVE replace(_, _, _)
replace(s, old, new) ==
    IF s = <<>> THEN <<>>
    ELSE (IF Head(s) = old THEN new ELSE <<Head(s)>>) \o replace(Tail(s), old, new)

Find(s, ch) ==
    IF \E i \in 1..Len(s) : s[i] = ch
    THEN CHOOSE i \in 1..Len(s) : s[i] = ch /\ \A j \in 1..(i - 1) : s[j] # ch
    ELSE 0

----------------------------------------------------------------------------
(* src/utils.py                                                            *)
RECURSIVE split(_, _, _)
split(text, cur, acc) ==
    IF text = <<>> THEN (IF cur = <<>> THEN acc ELSE Append(acc, cur))
    ELSE IF Head(text) \in Whitespace
         THEN split(Tail(text), <<>>, IF cur = <<>> THEN acc ELSE Append(acc, cur))
         ELSE split(Tail(text), Append(cur, Head(text)), acc)

RECURSIVE join(_)
join(words) ==
    IF words = <<>> THEN <<>>
    ELSE IF Len(words) = 1 THEN Head(words)
    ELSE Head(words) \o <<" ">> \o join(Tail(words))

clean_text(text) ==
    IF text = <<>> THEN <<>> ELSE join(split(text, <<>>, <<>>))

get_hash(text) == <<"m","d","5","(">> \o text \o <<")">>

----------------------------------------------------------------------------
(* String constants of src/scraper.py.                                     *)
BASE_URL ==
    <<"h","t","t","p","s",":","/","/","t","e","c","h","c","r","u","n","c","h",".","c","o","m">>
PagePrefix ==
    <<"/","p","a","g","e","/">>
Slash == <<"/">>
Http == <<"h","t","t","p">>
Unknown ==
    <<"U","n","k","n","o","w","n">>
FailedPrefix ==
    <<"F","a","i","l","e","d"," ","t","o"," ","f","e","t","c","h"," ">>
HttpInfix ==
    <<":"," ","H","T","T","P"," ">>
ExceptionPrefix ==
    <<"E","x","c","e","p","t","i","o","n"," ","w","h","i","l","e"," ","f","e","t","c","h","i","n","g"," ">>
ColonSpace ==
    <<":"," ">>
NoSessionMsg ==
    <<"'","N","o","n","e","T","y","p","e","'"," ","o","b","j","e","c","t"," ","h","a","s"," ","n","o"," ","a","t","t","r","i","b","u","t","e"," ","'","g","e","t","'">>

----------------------------------------------------------------------------
(* datetime.fromisoformat and strftime("%Y-%m-%d %H:%M"), as called at     *)
(* scraper.py:203-204.  The grammar is the extended ISO form               *)
(* YYYY-MM-DD[*HH[:MM[:SS]][(+|-)HH:MM[:SS]]] without fractional seconds;  *)
(* every other string is a ValueError (ok = FALSE).                        *)
NoDate == [ok |-> FALSE, year |-> 0, month |-> 0, day |-> 0, hour |-> 0, minute |-> 0]

IsLeap(y) == (y % 4 = 0 /\ y % 100 # 0) \/ y % 400 = 0

DaysInMonth(y, m) ==
    IF m = 2 THEN (IF IsLeap(y) THEN 29 ELSE 28)
    ELSE IF m \in {4, 6, 9, 11} THEN 30 ELSE 31

DateOk(s) ==
    /\ Len(s) >= 10
    /\ IsDigits(SubSeq(s, 1, 4)) /\ s[5] = "-"
    /\ IsDigits(SubSeq(s, 6, 7)) /\ s[8] = "-"
    /\ IsDigits(SubSeq(s, 9, 10))
    /\ ToInt(SubSeq(s, 1, 4)) >= 1
    /\ ToInt(SubSeq(s, 6, 7)) \in 1..12
    /\ ToInt(SubSeq(s, 9, 10)) \in 1..DaysInMonth(ToInt(SubSeq(s, 1, 4)), ToInt(SubSeq(s, 6, 7)))

\* HH[:MM[:SS]] with the given upper limit on the first component
ClockOk(t) ==
    /\ Len(t) \in {2, 5, 8}
    /\ IsDigits(SubSeq(t, 1, 2))
    /\ Len(t) >= 5 => (t[3] = ":" /\ IsDigits(SubSeq(t, 4, 5)) /\ ToInt(SubSeq(t, 4, 5)) < 60)
    /\ Len(t) >= 8 => (t[6] = ":" /\ IsDigits(SubSeq(t, 7, 8)) /\ ToInt(SubSeq(t, 7, 8)) < 60)
    /\ ToInt(SubSeq(t, 1, 2)) < 24

TzPos(t) == IF Find(t, "-") # 0 THEN Find(t, "-") ELSE Find(t, "+")

TimeOk(t) ==
    IF TzPos(t) = 0 THEN ClockOk(t)
    ELSE /\ ClockOk(SubSeq(t, 1, TzPos(t) - 1))
         /\ Len(t) - TzPos(t) >= 5
         /\ ClockOk(SubSeq(t, TzPos(t) + 1, Len(t)))

fromisoformat(s) ==
    IF ~DateOk(s) THEN NoDate
    ELSE IF Len(s) = 10
         THEN [ok |-> TRUE, year |-> ToInt(SubSeq(s, 1, 4)), month |-> ToInt(SubSeq(s, 6, 7)),
               day |-> ToInt(SubSeq(s, 9, 10)), hour |-> 0, minute |-> 0]
    ELSE IF ~TimeOk(SubSeq(s, 12, Len(s))) THEN NoDate
    ELSE [ok |-> TRUE, year |-> ToInt(SubSeq(s, 1, 4)), month |-> ToInt(SubSeq(s, 6, 7)),
          day |-> ToInt(SubSeq(s, 9, 10)), hour |-> ToInt(SubSeq(s, 12, 13)),
          minute |-> IF Len(s) >= 16 /\ s[14] = ":" THEN ToInt(SubSeq(s, 15, 16)) ELSE 0]

strftime(dt) ==
    Pad(IntToStr(dt.year), 4) \o <<"-">> \o Pad(IntToStr(dt.month), 2) \o <<"-">>
        \o Pad(IntToStr(dt.day), 2) \o <<" ">> \o Pad(IntToStr(dt.hour), 2)
        \o <<":">> \o Pad(IntToStr(dt.minute), 2)

----------------------------------------------------------------------------
(* Article and parse_article_from_card (scraper.py:24-39, 169-224).        *)
(* A card is what BeautifulSoup exposes of one loop-card__content element: *)
(* whether each looked-up tag exists and the text / attributes it carries. *)

\* scraper.py:189-191
resolve_url(href) ==
    IF href # <<>> /\ ~startswith(href, Http)
    THEN (IF startswith(href, Slash) THEN BASE_URL \o href ELSE BASE_URL \o Slash \o href)
    ELSE href

\* scraper.py:194-195
extract_author(c) ==
    IF c.has_author_tag THEN clean_text(c.author_text) ELSE Unknown

\* scraper.py:198-199
extract_raw_time(c) ==
    IF c.has_time_tag /\ c.has_datetime THEN c.datetime ELSE <<>>

\* variant: a datetime attribute that does not parse is treated as absent
format_publish_time_strict(raw_time) ==
    IF raw_time = <<>> THEN Unknown
    ELSE IF fromisoformat(replace(raw_time, "Z", <<"+","0","0",":","0","0">>)).ok
         THEN strftime(fromisoformat(replace(raw_time, "Z", <<"+","0","0",":","0","0">>)))
         ELSE Unknown

\* scraper.py:200-209
format_publish_time(raw_time) ==
    IF raw_time = <<>> THEN Unknown
    ELSE IF fromisoformat(replace(raw_time, "Z", <<"+","0","0",":","0","0">>)).ok
         THEN strftime(fromisoformat(replace(raw_time, "Z", <<"+","0","0",":","0","0">>)))
         ELSE Slice(raw_time, 19)

Article(title, url, author, publish_time) ==
    [source |-> "TechCrunch", title |-> title, url |-> url, author |-> author,
     publish_time |-> publish_time, hash |-> get_hash(title),
     category |-> "None", excerpt |-> "None"]

\* returns <<>> for None and <<article>> for an Article
parse_article_from_card(c) ==
    IF ~c.has_title_tag THEN <<>>
    ELSE IF clean_text(c.title_text) = <<>> THEN <<>>
    ELSE <<Article(clean_text(c.title_text),
                   resolve_url(IF c.has_href THEN c.href ELSE <<>>),
                   extract_author(c),
                   format_publish_time(extract_raw_time(c)))>>

----------------------------------------------------------------------------
(* Inputs: texts, hrefs and datetime attributes a card may carry.          *)
TitleFoo ==
    <<"F","o","o">>
TitleSpaced ==
    <<" ","A"," "," ","B","\n">>
TitleBlank ==
    <<" ","\t">>
HrefSlash ==
    <<"/","2","0","2","4","/","0","1","/","0","1","/","f","o","o">>
HrefBare ==
    <<"f","o","o","/","b","a","r">>
HrefAbs ==
    <<"h","t","t","p","s",":","/","/","x",".","c","o","m","/","a">>
HrefHttpBare ==
    <<"h","t","t","p","-","x">>
HrefMailto ==
    <<"m","a","i","l","t","o",":","a","@","b">>
HrefProto ==
    <<"/","/","c","d","n","/","x">>
AuthorJane ==
    <<" ","J","a","n","e"," "," ","D","o","e">>
DtZulu ==
    <<"2","0","2","4","-","0","1","-","1","5","T","1","0",":","3","0",":","0","0","Z">>
DtOffset ==
    <<"2","0","2","4","-","0","1","-","1","5","T","1","0",":","3","0",":","0","0","+","0","5",":","3","0">>
DtNegOffset ==
    <<"2","0","2","4","-","0","1","-","1","5"," ","0","9",":","0","5",":","5","9","-","0","8",":","0","0">>
DtLeap ==
    <<"2","0","2","4","-","0","2","-","2","9">>
DtNoLeap ==
    <<"2","0","2","3","-","0","2","-","2","9">>
DtHourOnly ==
    <<"2","0","2","4","-","1","2","-","3","1","T","2","3">>
DtMalformed ==
    <<"n","o","t","-","a","-","d","a","t","e","-","x","x","x","x","x","x","x","x","x","x">>
DtZSep ==
    <<"2","0","2","4","-","0","1","-","1","5","Z","1","0",":","3","0">>
DtMonth13 ==
    <<"2","0","2","4","-","1","3","-","1","5","T","1","0",":","3","0",":","0","0">>
DtDoubleZ ==
    <<"2","0","2","4","-","0","1","-","1","5","T","1","0",":","3","0",":","0","0","Z","Z">>
DtHour24 ==
    <<"2","0","2","4","-","0","1","-","1","5","T","2","4",":","0","0">>
DtBlank ==
    <<" ">>
DtShortTime ==
    <<"2","0","2","4","-","0","1","-","1","5","T","1">>

TitleTexts == {<<>>, TitleBlank, TitleFoo, TitleSpaced}
Hrefs == {<<>>, HrefSlash, HrefBare, HrefAbs, HrefHttpBare, HrefMailto, HrefProto}
AuthorTexts == {<<>>, TitleBlank, AuthorJane}
Datetimes == {<<>>, DtZulu, DtOffset, DtNegOffset, DtLeap, DtNoLeap, DtHourOnly,
              DtMalformed, DtZSep, DtMonth13, DtDoubleZ, DtHour24, DtBlank, DtShortTime}

MkCard(tt, text, hh, href, at, atext, tm, hd, dt) ==
    [has_title_tag |-> tt, title_text |-> text, has_href |-> hh, href |-> href,
     has_author_tag |-> at, author_text |-> atext,
     has_time_tag |-> tm, has_datetime |-> hd, datetime |-> dt]

\* every combination; what an absent tag or attribute would carry is empty
Cards ==
    {MkCard(tt, text, hh, href, at, atext, tm, hd, dt) :
        tt \in BOOLEAN, text \in TitleTexts, hh \in BOOLEAN, href \in Hrefs,
        at \in BOOLEAN, atext \in AuthorTexts,
        tm \in BOOLEAN, hd \in BOOLEAN, dt \in Datetimes}

WellFormedCard(c) ==
    /\ ~c.has_title_tag => (c.title_text = <<>> /\ ~c.has_href)
    /\ ~c.has_href => c.href = <<>>
    /\ ~c.has_author_tag => c.author_text = <<>>
    /\ ~c.has_time_tag => ~c.has_datetime
    /\ ~c.has_datetime => c.datetime = <<>>

AllCards == {c \in Cards : WellFormedCard(c)}

NoCard == MkCard(FALSE, <<>>, FALSE, <<>>, FALSE, <<>>, FALSE, FALSE, <<>>)

----------------------------------------------------------------------------
(* Inputs of a run: listing documents (the cards find_all returns) and the *)
(* outcomes of one session.get.                                            *)
GoodCard == MkCard(TRUE, TitleFoo, TRUE, HrefSlash, TRUE, AuthorJane, TRUE, TRUE, DtZulu)
OtherCard == MkCard(TRUE, TitleSpaced, TRUE, HrefAbs, FALSE, <<>>, TRUE, TRUE, DtMalformed)
BadCard == MkCard(FALSE, <<>>, FALSE, <<>>, TRUE, AuthorJane, TRUE, TRUE, DtZulu)
BlankCard == MkCard(TRUE, TitleBlank, TRUE, HrefBare, FALSE, <<>>, FALSE, FALSE, <<>>)

Documents ==
    {<<>>, <<BlankCard, BadCard>>,
     <<BadCard, GoodCard, OtherCard>>, <<GoodCard, OtherCard, GoodCard>>}

RECURSIVE MaxLen(_)
MaxLen(S) ==
    IF S = {} THEN 0
    ELSE LET d == CHOOSE x \in S : TRUE
             m == MaxLen(S \ {d})
         IN IF Len(d) >= m THEN Len(d) ELSE m

CardsPerPage == MaxLen(Documents)

TimeoutMsg ==
    <<"T","i","m","e","o","u","t">>
DecodeMsg ==
    <<"b","a","d"," ","b","y","t","e">>
ErrorStatuses == {404, 503}

MkResponse(kind, status, cards, message) ==
    [kind |-> kind, status |-> status, cards |-> cards, message |-> message]

\* "document": status 200 and the body parsed; "status": a non-200 status;
\* "exception": session.get, response.text() or BeautifulSoup raised
\* (status 0: before any status was seen, 200: while reading the body)
Responses ==
    {MkResponse("document", 200, d, <<>>) : d \in Documents}
        \cup {MkResponse("status", st, <<>>, <<>>) : st \in ErrorStatuses}
        \cup {MkResponse("exception", 0, <<>>, TimeoutMsg),
              MkResponse("exception", 200, <<>>, DecodeMsg)}

NoSessionResponse == MkResponse("exception", 0, <<>>, NoSessionMsg)

DelayRanges == {<<lo, hi>> : lo \in 0..MaxDelay, hi \in 0..MaxDelay} \ {r \in (0..MaxDelay) \X (0..MaxDelay) : r[1] > r[2]}

----------------------------------------------------------------------------
(* TechCrunchScraper (scraper.py:41-224).                                  *)

\* variant: the first page is requested under /page/1/ as well
page_url_uniform(p) == BASE_URL \o PagePrefix \o IntToStr(p) \o Slash

\* scraper.py:123-126
page_url(p) ==
    IF p = 1 THEN BASE_URL ELSE BASE_URL \o PagePrefix \o IntToStr(p) \o Slash

\* scraper.py:83, random.uniform(*self.delay_range) on the integer grid
random_delay(range) == range[1]..range[2]

\* variant: no "except Exception" around session.get
fetch_page_uncaught(url, resp, errs) ==
    IF resp.kind = "document"
    THEN [soup |-> <<resp.cards>>, errors |-> errs, raised |-> FALSE]
    ELSE IF resp.kind = "status"
    THEN [soup |-> <<>>, raised |-> FALSE,
          errors |-> Append(errs, FailedPrefix \o url \o HttpInfix \o IntToStr(resp.status))]
    ELSE [soup |-> <<>>, raised |-> TRUE, errors |-> errs]

\* scraper.py:96-111; resp is what session.get produced.
\* soup = <<>> stands for None, <<cards>> for a parsed document; raised is
\* TRUE when an exception leaves fetch_page.
fetch_page(url, resp, errs) ==
    IF resp.kind = "document"
    THEN [soup |-> <<resp.cards>>, errors |-> errs, raised |-> FALSE]
    ELSE IF resp.kind = "status"
    THEN [soup |-> <<>>, raised |-> FALSE,
          errors |-> Append(errs, FailedPrefix \o url \o HttpInfix \o IntToStr(resp.status))]
    ELSE [soup |-> <<>>, raised |-> FALSE,
          errors |-> Append(errs, ExceptionPrefix \o url \o ColonSpace \o resp.message)]

\* scraper.py:136-140: the articles of the cards from index i on, with the
\* index of the card each came from
RECURSIVE parse_cards(_, _)
parse_cards(cards, i) ==
    IF i > Len(cards) THEN [articles |-> <<>>, index |-> <<>>]
    ELSE LET a == parse_article_from_card(cards[i])
             rest == parse_cards(cards, i + 1)
         IN IF a = <<>> THEN rest
            ELSE [articles |-> a \o rest.articles, index |-> <<i>> \o rest.index]

\* variant: a document none of whose cards parsed is logged as an error
scrape_page_logs_skips(p, resp, errs) ==
    LET f == fetch_page(page_url(p), resp, errs)
    IN IF f.soup = <<>>
       THEN [articles |-> <<>>, index |-> <<>>, errors |-> f.errors, raised |-> f.raised]
       ELSE [articles |-> parse_cards(f.soup[1], 1).articles,
             index |-> parse_cards(f.soup[1], 1).index,
             errors |-> IF Len(parse_cards(f.soup[1], 1).articles) < Len(f.soup[1])
                        THEN Append(f.errors, ExceptionPrefix \o page_url(p) \o ColonSpace)
                        ELSE f.errors,
             raised |-> f.raised]

\* scraper.py:113-143
scrape_page(p, resp, errs) ==
    LET f == fetch_page(page_url(p), resp, errs)
    IN IF f.soup = <<>>
       THEN [articles |-> <<>>, index |-> <<>>, errors |-> f.errors, raised |-> f.raised]
       ELSE [articles |-> parse_cards(f.soup[1], 1).articles,
             index |-> parse_cards(f.soup[1], 1).index,
             errors |-> f.errors, raised |-> f.raised]

\* variant: the newest page is put in front
extend_front(all, articles) == articles \o all

\* scraper.py:156
extend(all, articles) == all \o articles

\* variant: no early stop
stops_never(articles) == FALSE

\* scraper.py:159-161
stops(articles) == articles = <<>>

\* variant: a delay after every page, the last included
delays_always(p, maxp) == TRUE

\* scraper.py:164
delays(p, maxp) == p < maxp

\* variant: the session is closed on normal completion only
aexit_normal_only(s, exc) == IF s = "open" /\ ~exc THEN "closed" ELSE s

\* scraper.py:65-68; exc is the exception state handed to __aexit__
aexit(s, exc) == IF s = "open" THEN "closed" ELSE s

\* scraper.py:167, 330: scrape_all_pages returns to main() or to a bare caller
Returned == IF use_scope THEN "scraped" ELSE "done"

\* scraper.py:154: the for loop takes its next value or ends
Advance ==
    IF page_num < max_pages
    THEN page_num' = page_num + 1 /\ pc' = "loop"
    ELSE page_num' = page_num /\ pc' = Returned

\* scraper.py:155-167: the loop body once session.get has produced resp
LoopBody(resp, d) ==
    LET r == scrape_page(page_num, resp, errors)
    IN /\ errors' = r.errors
       /\ responses' = Append(responses, resp)
       /\ in_flight' = FALSE
       /\ IF r.raised
          THEN /\ failed' = TRUE
               /\ pc' = IF use_scope THEN "exiting" ELSE "done"
               /\ UNCHANGED <<all_articles, origin, yields, slept, delay, page_num>>
          ELSE /\ all_articles' = extend(all_articles, r.articles)
               /\ origin' = extend(origin, [i \in 1..Len(r.index) |-> <<page_num, r.index[i]>>])
               /\ yields' = Append(yields, Len(r.articles))
               /\ failed' = failed
               /\ IF stops(r.articles)
                  THEN /\ pc' = Returned
                       /\ UNCHANGED <<slept, delay, page_num>>
                  ELSE IF delays(page_num, max_pages)
                  THEN /\ pc' = "sleeping"
                       /\ slept' = Append(slept, page_num)
                       /\ delay' = d
                       /\ page_num' = page_num
                  ELSE /\ Advance
                       /\ UNCHANGED <<slept, delay>>

\* scraper.py:57-63
Enter ==
    /\ pc = "start" /\ use_scope
    /\ session' = "open"
    /\ pc' = "loop"
    /\ UNCHANGED <<max_pages, delay_range, use_scope, errors, all_articles,
                   page_num, in_flight, requests, yields, origin, slept, delay,
                   failed, responses, card, result>>

\* scrape_all_pages called on a scraper that never entered its context
CallBare ==
    /\ pc = "start" /\ ~use_scope
    /\ pc' = "loop"
    /\ UNCHANGED <<max_pages, delay_range, use_scope, session, errors,
                   all_articles, page_num, in_flight, requests, yields, origin,
                   slept, delay, failed, responses, card, result>>

\* scraper.py:154-155, 123-129, 96-98: the loop calls scrape_page, which
\* calls fetch_page, which awaits session.get
SendRequest ==
    /\ pc = "loop" /\ session = "open"
    /\ requests' = Append(requests, page_url(page_num))
    /\ in_flight' = TRUE
    /\ pc' = "fetching"
    /\ UNCHANGED <<max_pages, delay_range, use_scope, session, errors,
                   all_articles, page_num, yields, origin, slept, delay, failed,
                   responses, card, result>>

\* scraper.py:98, 107-111: self.session is None, .get raises AttributeError
FetchNoSession ==
    /\ pc = "loop" /\ session # "open"
    /\ requests' = Append(requests, page_url(page_num))
    /\ \E d \in random_delay(delay_range) : LoopBody(NoSessionResponse, d)
    /\ UNCHANGED <<max_pages, delay_range, use_scope, session,
                   card, result>>

\* scraper.py:98-111, 130-143, 156-165: the response arrives and the page
\* is processed
ReceiveResponse ==
    /\ pc = "fetching"
    /\ \E resp \in Responses : \E d \in random_delay(delay_range) : LoopBody(resp, d)
    /\ UNCHANGED <<max_pages, delay_range, use_scope, session, requests,
                   card, result>>

\* scraper.py:84, 154: asyncio.sleep returns, the loop goes on
DelayDone ==
    /\ pc = "sleeping"
    /\ delay' = -1
    /\ Advance
    /\ UNCHANGED <<max_pages, delay_range, use_scope, session, errors,
                   all_articles, in_flight, requests, yields, origin, slept, failed,
                   responses, card, result>>

\* scraper.py:332, 337-338
NoArticles ==
    /\ pc = "scraped" /\ all_articles = <<>>
    /\ pc' = "exiting"
    /\ UNCHANGED <<max_pages, delay_range, use_scope, session, errors,
                   all_articles, page_num, in_flight, requests, yields, origin,
                   slept, delay, failed, responses, card, result>>

\* scraper.py:332-335, 226-255: writing the file succeeds or raises;
\* args.no_report is read here and nowhere else
SaveCsv ==
    /\ pc = "scraped" /\ all_articles # <<>>
    /\ \E ok \in BOOLEAN, no_report \in BOOLEAN :
          /\ failed' = ~ok
          /\ pc' = IF ok /\ ~no_report THEN "saved" ELSE "exiting"
    /\ UNCHANGED <<max_pages, delay_range, use_scope, session, errors,
                   all_articles, page_num, in_flight, requests, yields, origin,
                   slept, delay, responses, card, result>>

\* scraper.py:335-336, 257-290: printing the report succeeds or raises
Report ==
    /\ pc = "saved"
    /\ \E ok \in BOOLEAN : failed' = ~ok
    /\ pc' = "exiting"
    /\ UNCHANGED <<max_pages, delay_range, use_scope, session, errors,
                   all_articles, page_num, in_flight, requests, yields, origin,
                   slept, delay, responses, card, result>>

\* scraper.py:65-68, 340-342: __aexit__ runs on every way out of the body
Exit ==
    /\ pc = "exiting"
    /\ session' = aexit(session, failed)
    /\ pc' = "done"
    /\ UNCHANGED <<max_pages, delay_range, use_scope, errors, all_articles,
                   page_num, in_flight, requests, yields, origin, slept, delay,
                   failed, responses, card, result>>

\* the state every specification starts from, up to its inputs
Idle ==
    /\ session = "none"
    /\ all_articles = <<>>
    /\ in_flight = FALSE
    /\ requests = <<>>
    /\ yields = <<>>
    /\ origin = <<>>
    /\ slept = <<>>
    /\ delay = -1
    /\ failed = FALSE
    /\ result = <<>>

\* scraper.py:52-55, 326-329
Init ==
    /\ pc = "start"
    /\ max_pages \in 1..MaxPages
    /\ delay_range \in DelayRanges
    /\ use_scope \in BOOLEAN
    /\ errors = <<>>
    /\ page_num = 1
    /\ responses = <<>>
    /\ card = NoCard
    /\ Idle

Next ==
    \/ Enter
    \/ CallBare
    \/ SendRequest
    \/ FetchNoSession
    \/ ReceiveResponse
    \/ DelayDone
    \/ NoArticles
    \/ SaveCsv
    \/ Report
    \/ Exit

Spec == Init /\ [][Next]_vars

----------------------------------------------------------------------------
(* Card specification: parse_article_from_card applied to one card.        *)
InitCard ==
    /\ pc = "card"
    /\ card \in AllCards
    /\ max_pages = 1
    /\ delay_range = <<0, 0>>
    /\ use_scope = FALSE
    /\ errors = <<>>
    /\ page_num = 1
    /\ responses = <<>>
    /\ Idle

ParseCard ==
    /\ pc = "card"
    /\ result' = parse_article_from_card(card)
    /\ pc' = "parsed"
    /\ UNCHANGED <<max_pages, delay_range, use_scope, session, errors,
                   all_articles, page_num, in_flight, requests, yields, origin,
                   slept, delay, failed, responses, card>>

NextCard == ParseCard

SpecCard == InitCard /\ [][NextCard]_vars

----------------------------------------------------------------------------
(* Fetch specification: one scrape_page call, hence one fetch_page call,   *)
(* on a scraper whose error log may already hold entries.                  *)
PriorLogs ==
    {<<>>, <<FailedPrefix \o BASE_URL \o HttpInfix \o IntToStr(500)>>,
     <<ExceptionPrefix \o BASE_URL \o ColonSpace \o TimeoutMsg,
       FailedPrefix \o BASE_URL \o HttpInfix \o IntToStr(404)>>}

InitFetch ==
    /\ pc = "fetch"
    /\ page_num \in 1..MaxPages
    /\ errors \in PriorLogs
    /\ \E resp \in Responses \cup {NoSessionResponse} : responses = <<resp>>
    /\ max_pages = MaxPages
    /\ delay_range = <<0, 0>>
    /\ use_scope = FALSE
    /\ card = NoCard
    /\ Idle

FetchPage ==
    /\ pc = "fetch"
    /\ LET r == scrape_page(page_num, responses[1], errors)
       IN /\ errors' = r.errors
          /\ all_articles' = r.articles
          /\ failed' = r.raised
          /\ yields' = <<Len(r.articles)>>
    /\ result' = fetch_page(page_url(page_num), responses[1], errors).soup
    /\ requests' = <<page_url(page_num)>>
    /\ pc' = "fetched"
    /\ UNCHANGED <<max_pages, delay_range, use_scope, session, page_num,
                   in_flight, origin, slept, delay, responses, card>>

NextFetch == FetchPage

SpecFetch == InitFetch /\ [][NextFetch]_vars

----------------------------------------------------------------------------
(* Properties.                                                             *)
Range(s) == {s[i] : i \in 1..Len(s)}

Returning == {"scraped", "saved", "exiting", "done"}

\* C1: a page that yields zero articles, by a failed fetch or by a document
\* none of whose cards parses, ends the loop at once: no later page is ever
\* fetched.  With maxPages = 5, page 1 yielding 3 articles and page 2
\* yielding none, the result has 3 articles and pages 1, 2 alone were fetched.
C1_StopAfterEmptyPage ==
    /\ \A k \in 1..Len(yields) : yields[k] = 0 =>
          /\ Len(requests) = k
          /\ \A j \in (k + 1)..max_pages : page_url(j) \notin Range(requests)
          /\ pc \in Returning
    /\ (max_pages = 5 /\ Len(yields) >= 2 /\ yields[1] = 3 /\ yields[2] = 0) =>
          (Len(all_articles) = 3 /\ requests = <<page_url(1), page_url(2)>>)

C1_Witness ==
    /\ pc = "done" /\ max_pages = 5
    /\ yields = <<3, 0>>
    /\ responses[2].kind = "document"
    /\ Len(all_articles) = 3

\* C2: every emitted Article has a non-empty title and url, and its author
\* and publish time are never empty: an absent author or timestamp is
\* exactly "Unknown".
C2_EmittedFieldsNonEmpty ==
    (pc = "parsed" /\ result # <<>>) =>
        /\ result[1].title # <<>>
        /\ result[1].url # <<>>
        /\ result[1].author # <<>>
        /\ result[1].publish_time # <<>>
        /\ ~card.has_author_tag => result[1].author = Unknown
        /\ ~card.has_datetime => result[1].publish_time = Unknown

LexLess(a, b) == a[1] < b[1] \/ (a[1] = b[1] /\ a[2] < b[2])

\* C3: the result holds at most maxPages times cards-per-page articles, in
\* ascending page order and, within a page, in card order; each article is
\* the parse of the card it came from and no parsable card of a processed
\* page is missing.
C3_OrderedResult ==
    /\ Len(all_articles) <= max_pages * CardsPerPage
    /\ Len(origin) = Len(all_articles)
    /\ \A i, j \in 1..Len(origin) : i < j => LexLess(origin[i], origin[j])
    /\ \A i \in 1..Len(origin) :
          /\ origin[i][1] \in 1..Len(responses)
          /\ origin[i][2] \in 1..Len(responses[origin[i][1]].cards)
          /\ <<all_articles[i]>> =
                parse_article_from_card(responses[origin[i][1]].cards[origin[i][2]])
    /\ \A k \in 1..Len(responses) : \A c \in 1..Len(responses[k].cards) :
          parse_article_from_card(responses[k].cards[c]) # <<>> => <<k, c>> \in Range(origin)

C3_Witness ==
    /\ pc = "done"
    /\ Len(yields) >= 2
    /\ <<1, 3>> \in Range(origin)
    /\ <<2, 2>> \in Range(origin)
    /\ responses[2].cards[1] = BadCard

StatusText(st) == IF st = 404 THEN <<"4","0","4">> ELSE <<"5","0","3">>

\* C4: fetch_page never raises.  A non-200 status appends exactly
\* "Failed to fetch <url>: HTTP <status>", an exception (no session
\* included) appends exactly "Exception while fetching <url>: <message>";
\* earlier entries stay, None is returned and the page has no articles.
\* A document is returned as it is and leaves the log unchanged.
C4_FetchNeverRaises ==
    [][(pc = "fetch" /\ pc' = "fetched") =>
          /\ ~failed'
          /\ responses[1].kind = "status" =>
                /\ errors' = errors \o <<FailedPrefix \o requests'[1] \o <<":"," ","H","T","T","P"," ">>
                                            \o StatusText(responses[1].status)>>
                /\ result' = <<>> /\ all_articles' = <<>>
          /\ responses[1].kind = "exception" =>
                /\ errors' = errors \o <<ExceptionPrefix \o requests'[1] \o <<":"," ">>
                                            \o responses[1].message>>
                /\ result' = <<>> /\ all_articles' = <<>>
          /\ responses[1].kind = "document" =>
                /\ errors' = errors
                /\ result' = <<responses[1].cards>>]_vars

C4_Witness ==
    /\ pc = "fetched"
    /\ responses[1] = NoSessionResponse
    /\ Len(errors) = 3
    /\ page_num = 2

\* C5: random_delay runs after page p exactly when p yielded an article and
\* p < maxPages: one delay between consecutive fetches, none before the
\* first fetch, none after the page that stopped the loop or after page
\* maxPages; a delay lasts between delay_range's min and max.
C5_DelayBetweenPages ==
    /\ \A i \in 1..Len(slept) : slept[i] = i
    /\ \A p \in 1..Len(yields) : (yields[p] >= 1 /\ p < max_pages) <=> p \in Range(slept)
    /\ Range(slept) \subseteq 1..Len(yields)
    /\ in_flight => Len(slept) = Len(requests) - 1
    /\ pc = "sleeping" <=> delay # -1
    /\ pc = "sleeping" =>
          /\ delay_range[1] <= delay /\ delay <= delay_range[2]
          /\ slept[Len(slept)] = Len(yields)

C5_Witness ==
    /\ pc = "done"
    /\ max_pages = 3
    /\ Len(yields) = 3 /\ yields[3] >= 1
    /\ slept = <<1, 2>>

\* C6: the session is opened once on entering the scope and closed on every
\* way out of it, exceptions included: after the scope it is closed, it is
\* open whenever a fetch is in flight, and nothing is fetched once it is
\* closed.
C6_SessionScope ==
    /\ in_flight => session = "open"
    /\ (use_scope /\ pc = "done") => session = "closed"
    /\ (use_scope /\ pc \notin {"start", "done"}) => session = "open"
    /\ session = "closed" => (pc = "done" /\ ~in_flight)
    /\ ~use_scope => session = "none"

C6_Witness ==
    /\ pc = "done" /\ use_scope /\ failed
    /\ session = "closed"
    /\ Len(requests) >= 2

\* the inputs that are ISO-8601 timestamps, and what "YYYY-MM-DD HH:MM" is
\* for them, read off the text itself
ValidIso == {DtZulu, DtOffset, DtNegOffset, DtLeap, DtHourOnly}

IsoMinutes(raw) ==
    SubSeq(raw, 1, 10) \o <<" ">>
        \o (IF Len(raw) >= 13 THEN SubSeq(raw, 12, 13) ELSE <<"0","0">>) \o <<":">>
        \o (IF Len(raw) >= 16 /\ raw[14] = ":" THEN SubSeq(raw, 15, 16) ELSE <<"0","0">>)

Emits(c) == c.has_title_tag /\ clean_text(c.title_text) # <<>>

\* C7 as stated: a datetime attribute that parses once a trailing "Z" is
\* read as "+00:00" gives "YYYY-MM-DD HH:MM" (fromisoformat takes any
\* character, a "Z" too, between date and time), one that is present and
\* does not parse gives its first 19 characters, an absent one gives
\* "Unknown"; the card is never dropped for it.
C7_PublishTimeThreeWays ==
    (pc = "parsed" /\ Emits(card)) =>
        /\ result # <<>>
        /\ result[1].publish_time =
              IF ~card.has_datetime THEN Unknown
              ELSE IF card.datetime \in ValidIso \cup {DtZSep} THEN IsoMinutes(card.datetime)
              ELSE Slice(card.datetime, 19)

\* C7 amended: as C7, but a datetime attribute that is present and empty
\* gives "Unknown" like an absent one, and every "Z" of the attribute, not
\* only a trailing one, is replaced by "+00:00" before parsing.
C7_PublishTimeAmended ==
    (pc = "parsed" /\ Emits(card)) =>
        /\ result # <<>>
        /\ errors = <<>>
        /\ result[1].publish_time =
              IF ~card.has_datetime \/ card.datetime = <<>> THEN Unknown
              ELSE IF card.datetime \in ValidIso THEN IsoMinutes(card.datetime)
              ELSE Slice(card.datetime, 19)
        /\ card.datetime = DtZulu =>
              result[1].publish_time =
                  <<"2","0","2","4","-","0","1","-","1","5"," ","1","0",":","3","0">>
        /\ card.datetime = DtMalformed =>
              result[1].publish_time =
                  <<"n","o","t","-","a","-","d","a","t","e","-","x","x","x","x","x","x","x","x">>

C7_Witness ==
    /\ pc = "parsed" /\ result # <<>>
    /\ card.has_datetime /\ card.datetime = <<>>
    /\ result[1].publish_time = Unknown

\* a url with a scheme: a colon after a non-empty run that holds no slash
HasScheme(u) ==
    /\ Find(u, ":") > 1
    /\ Find(u, "/") = 0 \/ Find(u, ":") < Find(u, "/")

\* C8: the url emitted for a card with an href is absolute: an absolute href
\* is kept, a relative href with a leading slash becomes origin + href, and
\* any other relative href becomes origin + "/" + href.
C8_UrlAbsolute ==
    (pc = "parsed" /\ result # <<>> /\ card.has_href /\ card.href # <<>>) =>
        /\ HasScheme(result[1].url)
        /\ result[1].url =
              IF HasScheme(card.href) THEN card.href
              ELSE IF Head(card.href) = "/" THEN BASE_URL \o card.href
              ELSE BASE_URL \o <<"/">> \o card.href

ExpectedUrl(p) ==
    IF p = 1
    THEN <<"h","t","t","p","s",":","/","/","t","e","c","h","c","r","u","n","c","h",".","c","o","m">>
    ELSE <<"h","t","t","p","s",":","/","/","t","e","c","h","c","r","u","n","c","h",".","c","o","m",
           "/","p","a","g","e","/">> \o <<DigitChars[p + 1]>> \o <<"/">>

C10_ErrorLog ==
    /\ Len(errors) <= 1
    /\ Len(errors) = Cardinality({k \in 1..Len(responses) : responses[k].kind # "document"})
    /\ errors # <<>> =>
          /\ responses[Len(responses)].kind # "document"
          /\ Len(yields) = Len(requests) /\ yields[Len(yields)] = 0
          /\ \/ startswith(errors[1], FailedPrefix \o ExpectedUrl(Len(requests)) \o <<":"," ">>)
             \/ startswith(errors[1], ExceptionPrefix \o ExpectedUrl(Len(requests)) \o <<":"," ">>)
          /\ \A i \in 1..Len(origin) : origin[i][1] < Len(requests)
          /\ pc \in Returning

C10_Witness ==
    /\ pc = "done"
    /\ Len(errors) = 1
    /\ Len(all_articles) = 2
    /\ responses[1].cards = <<BadCard, GoodCard, OtherCard>>
    /\ responses[2].kind = "exception"

====
